---- MODULE Spec2Model ----
(***************************************************************************)
(* machine-as-script (src/index.js): the adapter `runMachineAsScript`      *)
(* that turns a machine definition into a command-line script.             *)
(*                                                                         *)
(* The adapter is one synchronous function; `pc` is its position.  The     *)
(* process arguments (as yargs parses them), the environment, the caller's *)
(* options and the machine are the inputs, fixed by Init.  After the       *)
(* adapter has returned, the caller may run the machine, which calls one   *)
(* of the two exit handlers the adapter bound.                             *)
(*                                                                         *)
(* JavaScript values are tagged pairs <<tag, payload>>.  A dictionary is a *)
(* sequence of <<key, value>> pairs in insertion order, which is the order *)
(* lodash iterates it in.                                                  *)
(***************************************************************************)
EXTENDS Integers, Sequences, FiniteSets, TLC

VARIABLES
  machine,            \* wetMachine: [inputs, success] (declared inputs, success exit)
  opts,               \* the caller's options: [args, envVarNamespace]
  argv,               \* process.argv as tokenised: [flags, pos]
  env,                \* process.env
  pc,                 \* position in runMachineAsScript / afterwards
  shortcutsSoFar,     \* line 88
  options,            \* the options registered with commander
  inputConfiguration, \* lines 134-164: the assembled (raw) configuration
  liveMachine,        \* line 185: the invocation
  thrown,             \* the error the adapter threw, if any
  calls,              \* the calls the machine runtime made to the bound exit handlers
  console             \* what the exit handlers printed

vars == <<machine, opts, argv, env, pc, shortcutsSoFar, options,
          inputConfiguration, liveMachine, thrown, calls, console>>

---------------------------------------------------------------------------
(* Bounds of the model *)

MaxInputs == 2   \* declared inputs
MaxFlags  == 2   \* flags on the command line
MaxPos    == 2   \* positional tokens on the command line
MaxNames  == 2   \* names in opts.args
MaxEnv    == 1   \* environment variables that are set

---------------------------------------------------------------------------
(* JavaScript values *)

Undefined == <<"undefined", "">>
Str(s)    == <<"str", s>>
Num(n)    == <<"num", n>>
Bool(b)   == <<"bool", b>>
Arr(a)    == <<"arr", a>>

IsUndefined(v) == v[1] = "undefined"
IsString(v)    == v[1] = "str"
IsArray(v)     == v[1] = "arr"

Range(s) == {s[i] : i \in DOMAIN s}

(* Dictionaries: own keys in insertion order *)
Keys(d)   == {d[i][1] : i \in DOMAIN d}
Has(d, k) == k \in Keys(d)
Get(d, k) == IF Has(d, k) THEN d[CHOOSE i \in DOMAIN d : d[i][1] = k][2] ELSE Undefined
Put(d, k, v) ==
  IF Has(d, k)
    THEN [i \in DOMAIN d |-> IF d[i][1] = k THEN <<k, v>> ELSE d[i]]
    ELSE Append(d, <<k, v>>)
IsNot(k, e) == e[1] # k
Delete(d, k) == SelectSeq(d, LAMBDA e : IsNot(k, e))

RECURSIVE Extend(_, _)
Extend(d, src) ==
  IF src = <<>> THEN d
  ELSE Extend(Put(d, src[1][1], src[1][2]), Tail(src))

---------------------------------------------------------------------------
(* The machines and inputs the model runs the adapter on *)

InputNames == {"path", "port", "args"}

\* inputName[0]
FirstLetter(inputName) ==
  CASE inputName = "path" -> "p"
    [] inputName = "port" -> "p"
    [] inputName = "args" -> "a"
    [] OTHER -> "b"

\* rttc.infer(inputDef.example): path has example '/tmp', port 80, args 'x'
InferExample(inputName) == IF inputName = "port" THEN "number" ELSE "string"

SeqsUpTo(S, n) == UNION {[1..k -> S] : k \in 0..n}
Injective(s)   == \A i, j \in DOMAIN s : i # j => s[i] # s[j]

Flag(dash, key, val) == [dash |-> dash, key |-> key, val |-> val]

\* the flags a command line is made of, in the order they are given in
\* (yargs reads `--port 42` as the number 42)
FlagPool == <<Flag("--", "path", Str("a")), Flag("-", "p", Str("v")),
              Flag("--", "port", Num(42)), Flag("--", "bogus", Str("x"))>>
\* the positional tokens of a command line, in order
PosTokens == <<Str("b"), Num(7), Str("c"), Str("d")>>
\* the environment variables that may be set
EnvPool == {<<"___path", "">>, <<"___args", "e">>, <<"MY_path", "m">>}
EnvVarNames == {e[1] : e \in EnvPool}
\* the names opts.args may hold
NamePool == {"path", "args"}

\* the elements of sequence `pool` at the indexes in S, in order
Nth(S, i)    == CHOOSE x \in S : Cardinality({y \in S : y < x}) = i - 1
Pick(pool, S) == [i \in 1..Cardinality(S) |-> pool[Nth(S, i)]]

\* lines 69-72, 200-203: a success exit, by what the handler tests of it: example,
\* like and itemOf are defined or not, getExample is a function or not
DefaultSuccess == [example |-> FALSE, getExample |-> FALSE, like |-> FALSE, itemOf |-> FALSE]

---------------------------------------------------------------------------
(* Lines 84-125: flag derivation and commander *)

\* lines 97-104 without the test of line 100
OptShortcutAlways(shortcuts, inputName) == Str("-" \o FirstLetter(inputName))

\* lines 97-104: the shortcut of an input, undefined when the letter is taken
OptShortcut(shortcuts, inputName) ==
  LET shortcut == "-" \o FirstLetter(inputName)
  IN  IF shortcut \in Range(shortcuts) THEN Undefined ELSE Str(shortcut)

\* line 102: shortcutsSoFar.push(_shortcut), reached only when it is new
PushShortcut(shortcuts, inputName) ==
  LET optShortcut == OptShortcut(shortcuts, inputName)
  IN  IF IsUndefined(optShortcut) THEN shortcuts
      ELSE Append(shortcuts, "-" \o FirstLetter(inputName))

\* lines 94, 111-122: program.option('-p, --path') or program.option('--path')
OptUsage(shortcuts, inputName) ==
  LET opt         == "--" \o inputName
      optShortcut == OptShortcut(shortcuts, inputName)
  IN  IF ~IsUndefined(optShortcut)
        THEN [short |-> optShortcut, long |-> opt]
        ELSE [short |-> Undefined, long |-> opt]

\* lines 91-124: _.each(wetMachine.inputs, ...)
RECURSIVE EachInput(_, _, _)
EachInput(ins, shortcuts, registered) ==
  IF ins = <<>> THEN [shortcutsSoFar |-> shortcuts, options |-> registered]
  ELSE EachInput(Tail(ins),
                 PushShortcut(shortcuts, Head(ins)),
                 Append(registered, OptUsage(shortcuts, Head(ins))))

DeriveFlags ==
  /\ pc = "flags"
  /\ LET r == EachInput(machine.inputs, <<>>, <<>>)
     IN  /\ shortcutsSoFar' = r.shortcutsSoFar
         /\ options' = r.options
  /\ pc' = "parse"
  /\ UNCHANGED <<machine, opts, argv, env, inputConfiguration, liveMachine, thrown, calls, console>>

\* line 125: an option on the command line that commander has no registration for
UnknownOption(f) ==
  LET token == f.dash \o f.key
  IN  \A i \in DOMAIN options :
        /\ options[i].long # token
        /\ options[i].short # Str(token)

\* line 125: program.parse(process.argv) lets the script go on ...
ParseAccepts ==
  /\ pc = "parse"
  /\ pc' = "assemble"
  /\ UNCHANGED <<machine, opts, argv, env, shortcutsSoFar, options,
                 inputConfiguration, liveMachine, thrown, calls, console>>

\* ... or, lines 125-130, ends the process on an option it does not know
\* (commander decides; whether it does depends on the other tokens)
ParseRejects ==
  /\ pc = "parse"
  /\ \E i \in DOMAIN argv.flags : UnknownOption(argv.flags[i])
  /\ pc' = "rejected"
  /\ UNCHANGED <<machine, opts, argv, env, shortcutsSoFar, options,
                 inputConfiguration, liveMachine, thrown, calls, console>>

---------------------------------------------------------------------------
(* Lines 133-164: configuration assembly *)

\* yargs.argv: the positional collector, the flags by key, the program name
RECURSIVE FlagEntries(_)
FlagEntries(fs) ==
  IF fs = <<>> THEN <<>>
  ELSE <<<<Head(fs).key, Head(fs).val>>>> \o FlagEntries(Tail(fs))

YargsArgv == <<<<"_", Arr(argv.pos)>>>> \o FlagEntries(argv.flags) \o <<<<"$0", Str("script")>>>>

\* lines 46-49
EnvVarNamespace ==
  IF IsString(opts.envVarNamespace) THEN opts.envVarNamespace[2] ELSE "___"

\* process.env[name]
ProcessEnv(name) == IF name \in DOMAIN env THEN env[name] ELSE Undefined

\* lines 137-139
SupplyOptions == Delete(Delete(Extend(<<>>, YargsArgv), "_"), "$0")

\* lines 142-151 with `if (!envVarData)` for line 144
RECURSIVE SupplyEnvTruthy(_, _)
SupplyEnvTruthy(cfg, ins) ==
  IF ins = <<>> THEN cfg
  ELSE LET inputName  == Head(ins)
           envVarData == ProcessEnv(EnvVarNamespace \o inputName)
       IN  IF IsUndefined(envVarData) \/ envVarData = Str("")
             THEN SupplyEnvTruthy(cfg, Tail(ins))
             ELSE SupplyEnvTruthy(Put(cfg, inputName, envVarData), Tail(ins))

\* lines 142-151
RECURSIVE SupplyEnv(_, _)
SupplyEnv(cfg, ins) ==
  IF ins = <<>> THEN cfg
  ELSE LET inputName  == Head(ins)
           envVarData == ProcessEnv(EnvVarNamespace \o inputName)
       IN  IF IsUndefined(envVarData)
             THEN SupplyEnv(cfg, Tail(ins))
             ELSE SupplyEnv(Put(cfg, inputName, envVarData), Tail(ins))

\* lines 155-157
SupplyArgsInput(cfg) ==
  IF IsArray(Get(YargsArgv, "_")) THEN Put(cfg, "args", Get(YargsArgv, "_")) ELSE cfg

\* yargs.argv._[i] read one place too far
PositionalOffByOne(i) == IF i + 1 \in DOMAIN argv.pos THEN argv.pos[i + 1] ELSE Undefined

\* yargs.argv._[i] (i counts from 1 here)
Positional(i) == IF i \in DOMAIN argv.pos THEN argv.pos[i] ELSE Undefined

\* lines 160-164
RECURSIVE SupplyPositional(_, _, _)
SupplyPositional(cfg, names, i) ==
  IF i > Len(names) THEN cfg
  ELSE SupplyPositional(Put(cfg, names[i], Positional(i)), names, i + 1)

SupplyArgs(cfg) ==
  IF IsArray(opts.args) THEN SupplyPositional(cfg, opts.args[2], 1) ELSE cfg

Assembled == SupplyArgs(SupplyArgsInput(SupplyEnv(SupplyOptions, machine.inputs)))

Assemble ==
  /\ pc = "assemble"
  /\ inputConfiguration' = Assembled
  /\ pc' = "coerce"
  /\ UNCHANGED <<machine, opts, argv, env, shortcutsSoFar, options, liveMachine, thrown, calls, console>>

---------------------------------------------------------------------------
(* Lines 166-182: coercion *)

\* line 179: val + ''
RECURSIVE ToStr(_)
RECURSIVE Join(_)
Join(a) ==
  IF a = <<>> THEN ""
  ELSE LET first == IF IsUndefined(a[1]) THEN "" ELSE ToStr(a[1])
       IN  IF Len(a) = 1 THEN first ELSE first \o "," \o Join(Tail(a))

ToStr(val) ==
  CASE val[1] = "str"       -> val[2]
    [] val[1] = "num"       -> ToString(val[2])
    [] val[1] = "bool"      -> IF val[2] THEN "true" ELSE "false"
    [] val[1] = "undefined" -> "undefined"
    [] val[1] = "arr"       -> Join(val[2])

Numerals == 0..99
IsNumeral(s) == \E n \in Numerals : ToString(n) = s

\* line 180: rttc.parseHuman(val, type, true), which the adapter takes not to
\* throw: a numeral becomes the number, any other text stays text
ParseHuman(s, type) ==
  IF type = "number" /\ IsNumeral(s)
    THEN Num(CHOOSE n \in Numerals : ToString(n) = s)
    ELSE Str(s)

\* line 170: wetMachine.inputs[inputName]
InputDef(inputName) == inputName \in Range(machine.inputs)

\* line 171 without the `!inputDef` test
SkipsArgsAlways(inputName) == inputName = "args"

\* line 171
SkipsArgs(inputName) == ~InputDef(inputName) /\ inputName = "args"

\* line 174 never taken
UnknownInputNever(inputName) == FALSE

\* line 174
UnknownInput(inputName) == ~InputDef(inputName)

UnknownInputError(inputName) ==
  Str("Unexpected error: received configuration for unknown input (" \o inputName \o ")")

\* lines 167-182: _.reduce(inputConfiguration, ..., {})
RECURSIVE Reduce(_, _)
Reduce(cfg, memo) ==
  IF cfg = <<>> THEN [thrown |-> Undefined, memo |-> memo]
  ELSE LET inputName == cfg[1][1]
           val       == cfg[1][2]
       IN  IF SkipsArgs(inputName) THEN Reduce(Tail(cfg), memo)
           ELSE IF UnknownInput(inputName)
             THEN [thrown |-> UnknownInputError(inputName), memo |-> memo]
           ELSE Reduce(Tail(cfg),
                       Put(memo, inputName, ParseHuman(ToStr(val), InferExample(inputName))))

Coerce ==
  /\ pc = "coerce"
  /\ LET r == Reduce(inputConfiguration, <<>>)
     IN  IF IsUndefined(r.thrown)
           THEN /\ inputConfiguration' = r.memo
                /\ pc' = "instantiate"
                /\ UNCHANGED thrown
           ELSE /\ thrown' = r.thrown
                /\ pc' = "threw"
                /\ UNCHANGED inputConfiguration
  /\ UNCHANGED <<machine, opts, argv, env, shortcutsSoFar, options, liveMachine, calls, console>>

---------------------------------------------------------------------------
(* Lines 184-226: the invocation *)

NoMachine == [built |-> FALSE, inputs |-> <<>>, exits |-> {}, telltale |-> Undefined]

\* line 185
Instantiate ==
  /\ pc = "instantiate"
  /\ liveMachine' = [liveMachine EXCEPT !.built = TRUE, !.inputs = inputConfiguration]
  /\ pc' = "setExits"
  /\ UNCHANGED <<machine, opts, argv, env, shortcutsSoFar, options,
                 inputConfiguration, thrown, calls, console>>

\* lines 188-223 with the marker set in the same step as the handlers
SetExitsAndTag ==
  /\ pc = "setExits"
  /\ liveMachine' = [liveMachine EXCEPT !.exits = {"error", "success"},
                                        !.telltale = Str("machine-as-script")]
  /\ pc' = "return"
  /\ UNCHANGED <<machine, opts, argv, env, shortcutsSoFar, options,
                 inputConfiguration, thrown, calls, console>>

\* lines 188-217
SetExits ==
  /\ pc = "setExits"
  /\ liveMachine' = [liveMachine EXCEPT !.exits = {"error", "success"}]
  /\ pc' = "telltale"
  /\ UNCHANGED <<machine, opts, argv, env, shortcutsSoFar, options,
                 inputConfiguration, thrown, calls, console>>

\* line 223
Tag ==
  /\ pc = "telltale"
  /\ liveMachine' = [liveMachine EXCEPT !.telltale = Str("machine-as-script")]
  /\ pc' = "return"
  /\ UNCHANGED <<machine, opts, argv, env, shortcutsSoFar, options,
                 inputConfiguration, thrown, calls, console>>

\* line 226
Return ==
  /\ pc = "return"
  /\ pc' = "returned"
  /\ UNCHANGED <<machine, opts, argv, env, shortcutsSoFar, options,
                 inputConfiguration, liveMachine, thrown, calls, console>>

---------------------------------------------------------------------------
(* Lines 189-216: the exit handlers, called when the caller runs the machine *)

Outputs == {Undefined, Str("OK."), Num(0)}
Errors  == {[stack |-> Str("Error: boom at fn"), text |-> "boom"],
            [stack |-> Undefined, text |-> "boom"]}

Call(exit, arg, inspectThrows) == [exit |-> exit, arg |-> arg, inspectThrows |-> inspectThrows]
Line(stream, style, text) == [stream |-> stream, style |-> style, text |-> text]

\* line 206: util.inspect(output, {depth: null, colors: true})
Inspect(output) ==
  IF IsString(output) THEN "'" \o output[2] \o "'" ELSE ToStr(output)

\* lines 199-204 without the itemOf test
ExpectsOutputNoItemOf(exit) == exit.example \/ exit.getExample \/ exit.like

\* lines 199-204
ExpectsOutput(exit) == exit.example \/ exit.getExample \/ exit.like \/ exit.itemOf

\* lines 197-206: line 206 is reached
ReachesInspect(exit, output) == ~IsUndefined(output) /\ ExpectsOutput(exit)

\* lines 194-216 as the code would be with the `return` inside the inner `if`
SuccessPrintsFallsThrough(exit, output, inspectThrows) ==
  IF ~IsUndefined(output) /\ ExpectsOutput(exit)
    THEN IF ~inspectThrows THEN <<Line("stdout", "colors", Inspect(output))>> ELSE <<>>
    ELSE <<Line("stdout", "green", "OK.")>>

\* lines 194-216; inspectThrows: line 206 throws inside the try
SuccessPrints(exit, output, inspectThrows) ==
  IF ~IsUndefined(output)
    THEN IF ExpectsOutput(exit) /\ ~inspectThrows
           THEN <<Line("stdout", "colors", Inspect(output))>>
           ELSE <<>>
    ELSE <<Line("stdout", "green", "OK.")>>

\* lines 189-193
ErrorPrints(err) ==
  <<Line("stdout", "red", "Something went wrong:"),
    IF ~IsUndefined(err.stack)
      THEN Line("stderr", "gray", err.stack[2])
      ELSE Line("stderr", "plain", err.text)>>

ExitSuccess ==
  /\ pc = "returned"
  /\ "success" \in liveMachine.exits
  /\ \E output \in Outputs :
     \E inspectThrows \in {t \in BOOLEAN : t => ReachesInspect(machine.success, output)} :
       /\ console' = console \o SuccessPrints(machine.success, output, inspectThrows)
       /\ calls' = Append(calls, Call("success", output, inspectThrows))
  /\ pc' = "exited"
  /\ UNCHANGED <<machine, opts, argv, env, shortcutsSoFar, options,
                 inputConfiguration, liveMachine, thrown>>

ExitError ==
  /\ pc = "returned"
  /\ "error" \in liveMachine.exits
  /\ \E err \in Errors :
       /\ console' = console \o ErrorPrints(err)
       /\ calls' = Append(calls, Call("error", <<"err", err>>, FALSE))
  /\ pc' = "exited"
  /\ UNCHANGED <<machine, opts, argv, env, shortcutsSoFar, options,
                 inputConfiguration, liveMachine, thrown>>

---------------------------------------------------------------------------
(* The runs *)

InputLists == {s \in SeqsUpTo(InputNames, MaxInputs) : Injective(s)}
NameLists  == SeqsUpTo(NamePool, MaxNames)
FlagLists  == {Pick(FlagPool, S) : S \in {T \in SUBSET DOMAIN FlagPool : Cardinality(T) <= MaxFlags}}
Positionals == {SubSeq(PosTokens, 1, n) : n \in 0..MaxPos}
EnvOf(S) ==
  [k \in EnvVarNames |->
     IF \E e \in S : e[1] = k THEN Str((CHOOSE e \in S : e[1] = k)[2]) ELSE Undefined]
Environments ==
  {EnvOf(S) : S \in {T \in SUBSET EnvPool :
                       /\ Cardinality(T) <= MaxEnv
                       /\ \A e, f \in T : e[1] = f[1] => e = f}}
SuccessExits == [example : BOOLEAN, getExample : BOOLEAN, like : BOOLEAN, itemOf : BOOLEAN]

\* the state when runMachineAsScript is entered (lines 25-88)
Start ==
  /\ pc = "flags"
  /\ shortcutsSoFar = <<>>
  /\ options = <<>>
  /\ inputConfiguration = <<>>
  /\ liveMachine = NoMachine
  /\ thrown = Undefined
  /\ calls = <<>>
  /\ console = <<>>

Init ==
  /\ machine \in [inputs : InputLists, success : {DefaultSuccess}]
  /\ opts \in [args : {Undefined} \cup {Arr(s) : s \in NameLists},
               envVarNamespace : {Undefined, Str("MY_")}]
  /\ argv \in [flags : FlagLists, pos : Positionals]
  /\ env \in Environments
  /\ Start

\* the adapter on a script without positional arguments, for every success exit
InitExits ==
  /\ machine \in [inputs : InputLists, success : SuccessExits]
  /\ opts = [args |-> Undefined, envVarNamespace |-> Undefined]
  /\ argv \in [flags : FlagLists, pos : {<<>>}]
  /\ env = [k \in EnvVarNames |-> Undefined]
  /\ Start

Next ==
  \/ DeriveFlags
  \/ ParseAccepts
  \/ ParseRejects
  \/ Assemble
  \/ Coerce
  \/ Instantiate
  \/ SetExits
  \/ Tag
  \/ Return
  \/ ExitSuccess
  \/ ExitError

Spec == Init /\ [][Next]_vars
SpecExits == InitExits /\ [][Next]_vars

---------------------------------------------------------------------------
(* Properties *)

Declared  == Range(machine.inputs)
ArgsNames == IF IsArray(opts.args) THEN opts.args[2] ELSE <<>>
\* the value `--X v` gave on the command line, if any
CliGiven(X) == \E i \in DOMAIN argv.flags : argv.flags[i].dash = "--" /\ argv.flags[i].key = X
CliValue(X) == argv.flags[CHOOSE i \in DOMAIN argv.flags : argv.flags[i].key = X].val
EnvValue(X) == ProcessEnv(EnvVarNamespace \o X)
AssemblyDone == pc = "coerce"

\* the raw value env and command line give X: the environment's if set, else the flag's
RawFromEnvOrCli(X) ==
  IF ~IsUndefined(EnvValue(X))
    THEN Has(inputConfiguration, X) /\ Get(inputConfiguration, X) = EnvValue(X)
    ELSE IF CliGiven(X)
      THEN Has(inputConfiguration, X) /\ Get(inputConfiguration, X) = CliValue(X)
      ELSE ~Has(inputConfiguration, X)

\* C1 as stated: for every declared input X not in the positional-name list, the
\* assembled raw value is the environment value when <namespace>X is set (even to
\* ''), whatever --X gave, and otherwise the --X value, or absent.
C1_EnvOverridesCli ==
  AssemblyDone =>
    \A X \in Declared : X \notin Range(ArgsNames) => RawFromEnvOrCli(X)

\* C1 amended: the same, for every such input other than one named `args`; the
\* raw value of a declared input named `args` is the list of positional tokens.
C1_EnvOverridesCliExceptArgs ==
  AssemblyDone =>
    \A X \in Declared : X \notin Range(ArgsNames) =>
      IF X = "args"
        THEN Get(inputConfiguration, X) = Arr(argv.pos)
        ELSE RawFromEnvOrCli(X)

\* C1 witness: --path a and ___path='' are both given, and the raw value is ''
C1_Witness ==
  /\ AssemblyDone
  /\ "path" \in Declared /\ "path" \notin Range(ArgsNames)
  /\ CliGiven("path") /\ EnvValue("path") = Str("")
  /\ Get(inputConfiguration, "path") = Str("")

\* C2 as stated: with at least as many positional tokens as names, the Nth named
\* input's raw value is the Nth positional token, for every N.
C2_PositionalOverrides ==
  (AssemblyDone /\ IsArray(opts.args) /\ Len(ArgsNames) <= Len(argv.pos)) =>
    \A N \in DOMAIN ArgsNames :
      /\ Has(inputConfiguration, ArgsNames[N])
      /\ Get(inputConfiguration, ArgsNames[N]) = argv.pos[N]

\* C2 amended: the same, for every N whose name does not occur again later in the
\* list (a name listed twice gets the token of its last position).
C2_LastPositionalOverrides ==
  (AssemblyDone /\ IsArray(opts.args) /\ Len(ArgsNames) <= Len(argv.pos)) =>
    \A N \in DOMAIN ArgsNames :
      (\A M \in DOMAIN ArgsNames : M > N => ArgsNames[M] # ArgsNames[N]) =>
        /\ Has(inputConfiguration, ArgsNames[N])
        /\ Get(inputConfiguration, ArgsNames[N]) = argv.pos[N]

\* C2 witness: path is named second, given by flag and by environment as well, and
\* holds the second positional token
C2_Witness ==
  /\ AssemblyDone
  /\ ArgsNames = <<"args", "path">> /\ Len(argv.pos) = 2
  /\ CliGiven("path") /\ ~IsUndefined(EnvValue("path"))
  /\ Get(inputConfiguration, "path") = argv.pos[2]
  /\ Get(inputConfiguration, "args") = argv.pos[1]

\* the keys of the assembled configuration that name no declared input
\* (the configuration is the assembled one until coercion has succeeded)
UnknownKeys == {k \in Keys(inputConfiguration) : k # "args" /\ k \notin Declared}

\* C3: if the assembled configuration has a key other than `args` that is no
\* declared input, the adapter throws the 'unknown input' error: the machine is
\* never instantiated, no handlers are bound, nothing is returned.
C3_UnknownInputThrows ==
  [][/\ (AssemblyDone /\ UnknownKeys # {}) =>
          /\ pc' = "threw"
          /\ thrown' \in {UnknownInputError(k) : k \in UnknownKeys}
          /\ liveMachine' = NoMachine
          /\ calls' = <<>>
     /\ pc = "threw" => UNCHANGED vars]_vars

\* C3 witness: the adapter threw on a key that came from the positional-name list
C3_Witness ==
  /\ pc = "threw"
  /\ argv.flags = <<>>
  /\ liveMachine = NoMachine
  /\ \E k \in UnknownKeys : k \in Range(ArgsNames) /\ thrown = UnknownInputError(k)

\* C4: the configuration handed to the machine has declared input names as keys
\* only; `args` is dropped unless an input `args` is declared, and is then kept,
\* coerced like any other input.
C4_OnlyDeclaredKeys ==
  liveMachine.built =>
    /\ Keys(liveMachine.inputs) \subseteq Declared
    /\ "args" \notin Declared => ~Has(liveMachine.inputs, "args")
    /\ "args" \in Declared =>
         /\ Has(liveMachine.inputs, "args")
         /\ Get(liveMachine.inputs, "args") =
              IF "args" \in Range(ArgsNames)
                THEN ParseHuman(ToStr(Get(Assembled, "args")), "string")
                ELSE Str(IF Len(argv.pos) = 0 THEN ""
                         ELSE IF Len(argv.pos) = 1 THEN "b"
                         ELSE IF Len(argv.pos) = 2 THEN "b,7"
                         ELSE "b,7,c")

\* C4 witness: an input `args` is declared and the machine got the two positional
\* tokens as text
C4_Witness ==
  /\ liveMachine.built
  /\ "args" \in Declared
  /\ Len(argv.pos) = 2
  /\ Get(liveMachine.inputs, "args") = Str("b,7")

SuccessCalled == pc = "exited" /\ calls[1].exit = "success"
OkLine == Line("stdout", "green", "OK.")
\* what util.inspect shows of the outputs of the model
Shown(output) == IF output = Str("OK.") THEN "'OK.'" ELSE "0"
ValueLine(output) == Line("stdout", "colors", Shown(output))

HasExample == machine.success # DefaultSuccess

\* C6 as stated: success with a defined output and an exit that has example,
\* getExample, like or itemOf prints the value once and no generic message;
\* success without output prints the generic message once and no value.
C6_PrintsValueOrOk ==
  SuccessCalled =>
    IF IsUndefined(calls[1].arg)
      THEN console = <<OkLine>>
      ELSE HasExample => console = <<ValueLine(calls[1].arg)>>

\* C6 amended: the same, unless pretty-printing the value throws; then nothing is
\* printed.
C6_PrintsValueUnlessThrows ==
  SuccessCalled =>
    IF IsUndefined(calls[1].arg)
      THEN console = <<OkLine>>
      ELSE HasExample =>
             IF calls[1].inspectThrows
               THEN console = <<>>
               ELSE console = <<ValueLine(calls[1].arg)>>

\* C6 witness: the exit has itemOf only, and the output 0 was printed
C6_Witness ==
  /\ SuccessCalled
  /\ calls[1].arg = Num(0)
  /\ machine.success = [DefaultSuccess EXCEPT !.itemOf = TRUE]
  /\ console = <<ValueLine(Num(0))>>

\* C7: in declaration order, an input gets the short flag of its first letter if
\* and only if no earlier input has that letter; no short flag is registered
\* twice, and a later input with the same letter has its long flag only.
C7_FirstComeShortcut ==
  pc # "flags" =>
    /\ Len(options) = Len(machine.inputs)
    /\ \A i \in DOMAIN options :
         /\ options[i].long = "--" \o machine.inputs[i]
         /\ IF \E j \in 1..(i - 1) :
                 FirstLetter(machine.inputs[j]) = FirstLetter(machine.inputs[i])
              THEN options[i].short = Undefined
              ELSE options[i].short = Str("-" \o FirstLetter(machine.inputs[i]))
    /\ \A i, j \in DOMAIN options :
         (i # j /\ options[i].short # Undefined) => options[i].short # options[j].short

\* C7 witness: path and port are declared in this order; path has -p, port has not
C7_Witness ==
  /\ pc # "flags"
  /\ machine.inputs = <<"path", "port">>
  /\ options = <<[short |-> Str("-p"), long |-> "--path"],
                 [short |-> Undefined, long |-> "--port"]>>

\* the step the invocation is at
Stage ==
  IF pc \in {"returned", "exited"} THEN "returned"
  ELSE IF liveMachine.telltale # Undefined THEN "tagged"
  ELSE IF liveMachine.exits # {} THEN "handlers-attached"
  ELSE IF liveMachine.built THEN "configured"
  ELSE "unconfigured"

StageOrder == {<<"unconfigured", "configured">>, <<"configured", "handlers-attached">>,
               <<"handlers-attached", "tagged">>, <<"tagged", "returned">>}

\* C8: the invocation goes unconfigured, configured, handlers-attached, tagged,
\* returned, one step at a time in this order, and no handler has run by the
\* time it is returned.
C8_StagesInOrder ==
  [][/\ Stage' # Stage => <<Stage, Stage'>> \in StageOrder
     /\ Stage' = "configured" => liveMachine'.inputs = inputConfiguration
     /\ pc' # "exited" => calls' = <<>> /\ console' = <<>>]_vars

\* C8 witness: the invocation has been returned, configured, bound and tagged,
\* and no handler has run
C8_Witness ==
  /\ pc = "returned"
  /\ liveMachine.built
  /\ liveMachine.exits = {"error", "success"}
  /\ liveMachine.telltale = Str("machine-as-script")
  /\ calls = <<>>

\* the input a short flag on the command line was derived for, if any
ShortFlagOf(f) ==
  {machine.inputs[j] : j \in {i \in DOMAIN options : options[i].short = Str(f.dash \o f.key)}}
\* X gets a value from nowhere but its short flag
OnlyShortFlag(X) ==
  /\ ~CliGiven(X)
  /\ IsUndefined(EnvValue(X))
  /\ X \notin Range(ArgsNames)
  /\ X # "args"

\* C9: a value given under an input's derived short flag is delivered to that
\* input: no 'unknown input' error for the short key, and the machine gets the
\* coerced value under the input's name.
C9_ShortFlagDelivered ==
  \A i \in DOMAIN argv.flags :
    \A X \in ShortFlagOf(argv.flags[i]) :
      /\ thrown # UnknownInputError(argv.flags[i].key)
      /\ (liveMachine.built /\ OnlyShortFlag(X)) =>
           /\ Has(liveMachine.inputs, X)
           /\ Get(liveMachine.inputs, X) = Str(ToStr(argv.flags[i].val))

\* the configuration before the positional override of lines 160-164
BeforeOverride == SupplyArgsInput(SupplyEnv(SupplyOptions, machine.inputs))
\* the names of opts.args that have no positional token
Surplus == {ArgsNames[N] : N \in {M \in DOMAIN ArgsNames : M > Len(argv.pos)}}
Overridden == {ArgsNames[N] : N \in {M \in DOMAIN ArgsNames : M <= Len(argv.pos)}}

\* C10: a name of the positional-name list that has no positional token keeps the
\* value its flag or environment variable gave it; it never becomes undefined
\* or the text "undefined".
C10_SurplusNameKeepsValue ==
  \A X \in ((Surplus \ Overridden) \ {"args"}) \cap Declared :
    (CliGiven(X) \/ ~IsUndefined(EnvValue(X))) =>
      /\ AssemblyDone => Get(inputConfiguration, X) = Get(BeforeOverride, X)
      /\ liveMachine.built => Get(liveMachine.inputs, X) # Str("undefined")

====
